---- MODULE Spec2Model ----
(***************************************************************************)
(* Memory-mapped inverted index (MmapInvertedIndex) of the full-text       *)
(* payload index: create / open / query / soft deletion / flush / re-open. *)
(* Point ids and token ids are naturals; slices are functions over 0..n-1. *)
(***************************************************************************)
EXTENDS Integers, Sequences, FiniteSets, TLC

\* ------------------------------------------------------------------ bounds
\* Largest number of points the builder's count vector holds.
MaxPoints == 2
\* Largest number of bits by which deleted_points.dat exceeds the count slice.
MaxTail == 1
\* Longest parsed query (number of token ids).
MaxQueryLen == 2
\* Width of usize in the model (the arithmetic of active_points_count wraps
\* at 2^USIZE_BITS in a release build).
USIZE_BITS == 8
\* Largest number of charged dictionary lookups made on one counter cell.
MaxLookups == 2
\* Number of point offsets the boolean index is given.
MaxBoolPoints == 2
\* Longest deletion bitmap, longest candidate list and longest output buffer
\* given to the quantized scorer.
MaxDeletedLen == 2
MaxCandidates == 3
MaxScores == 2
\* Number of threads that issue remove_document calls on a shared index, and
\* the largest number of calls one of them makes while the index is shared.
MaxWriters == 2
MaxWriterCalls == 1

\* ------------------------------------------------------------- basic types
\* Option<T>: None is the empty tuple, Some(x) a 1-tuple.
None == <<>>
Some(x) == <<x>>
IsSome(o) == o # None
Unwrap(o) == o[1]
UnwrapOr(o, d) == IF o = None THEN d ELSE o[1]

\* The token strings documents are made of, in the order a document lists them.
TokenSeq == <<"a", "b">>
Tokens == {TokenSeq[i] : i \in 1..Len(TokenSeq)}
NumTokens == Len(TokenSeq)
\* Token ids a parsed query may carry; NumTokens never has a posting.
QueryTokenIds == 0..NumTokens
\* Point ids callers pass; the largest is beyond every bitmap.
PointIds == 0..(MaxPoints + MaxTail)
USIZE_MOD == 2 ^ USIZE_BITS

RECURSIVE SeqsUpTo(_, _)
SeqsUpTo(S, n) ==
    IF n = 0 THEN {<<>>}
    ELSE LET shorter == SeqsUpTo(S, n - 1)
         IN shorter \cup {Append(q, x) : q \in {s \in shorter : Len(s) = n - 1}, x \in S}
Queries == SeqsUpTo(QueryTokenIds, MaxQueryLen)

Min(S) == CHOOSE x \in S : \A y \in S : x <= y
RECURSIVE SortedSeq(_)
SortedSeq(S) == IF S = {} THEN <<>> ELSE <<Min(S)>> \o SortedSeq(S \ {Min(S)})
Range(s) == {s[i] : i \in DOMAIN s}
\* slice.get(i): None when i is out of bounds.
SliceGet(slice, i) == IF i \in DOMAIN slice THEN Some(slice[i]) ELSE None
SliceLen(slice) == Cardinality(DOMAIN slice)
EmptySlice == [i \in {} |-> 0]

\* ---------------------------------------------------------------- builder
\* A document vector: per point None (no document) or Some(set of tokens).
DocChoices == {None} \cup {Some(d) : d \in SUBSET Tokens}
DocVectors == UNION {[0..(n - 1) -> DocChoices] : n \in 0..MaxPoints}

\* Token ids in first-seen order over the points and, within a document, the
\* order of TokenSeq.
RECURSIVE BuildVocab(_, _, _)
BuildVocab(docs, k, acc) ==
    IF k >= SliceLen(docs) * NumTokens THEN acc
    ELSE LET p == k \div NumTokens
             t == TokenSeq[(k % NumTokens) + 1]
             seen == IsSome(docs[p]) /\ t \in Unwrap(docs[p])
         IN IF seen /\ t \notin DOMAIN acc
            THEN BuildVocab(docs, k + 1,
                     [s \in DOMAIN acc \cup {t} |->
                         IF s = t THEN Cardinality(DOMAIN acc) ELSE acc[s]])
            ELSE BuildVocab(docs, k + 1, acc)

\* The handover structure ImmutableInvertedIndex the builder freezes.
Build(docs) ==
    LET v == BuildVocab(docs, 0, [s \in {} |-> 0])
        tok(id) == CHOOSE s \in DOMAIN v : v[s] = id
    IN [postings |-> [id \in 0..(Cardinality(DOMAIN v) - 1) |->
                        SortedSeq({p \in DOMAIN docs :
                            IsSome(docs[p]) /\ tok(id) \in Unwrap(docs[p])})],
        vocab |-> v,
        point_to_tokens_count |-> [p \in DOMAIN docs |->
                        IF IsSome(docs[p]) THEN Some(Cardinality(Unwrap(docs[p])))
                        ELSE None]]

\* ------------------------------------------------------------------ state
VARIABLES
    pc,                     \* "built" | "created" | "ready" | "closed" | "panicked"
    immutable,              \* the ImmutableInvertedIndex handed to create
    postings,               \* postings.dat: token id -> sorted point ids
    vocab,                  \* vocab.dat: token string -> token id
    point_to_tokens_count,  \* point_to_tokens_count.dat (mapped writable)
    bitslice,               \* deleted_points.dat, the mmap under the wrapper
    pending_updates,        \* the wrapper's staged updates: point id -> bit
    active_points_count,    \* cached number of points which are not deleted
    is_on_disk,             \* !populate
    fresh,                  \* the directory was created and never closed since
    last,                   \* the last call and what it returned
    hw_counter,             \* payload_index_io_read of the caller's HardwareCounterCell
    \* the boolean field index
    bool_pc,                \* "open" | "dropped"
    trues,                  \* point offsets flagged true
    falses,                 \* point offsets flagged false
    trues_count,            \* cached number of flagged trues
    falses_count,           \* cached number of flagged falses
    indexed_count,          \* cached number of points with a flag
    bool_files,             \* what the storage under the path holds
    bool_last,              \* the last call on the boolean index and its result
    \* a score_points call of the quantized raw scorer
    scorer_pc,              \* "idle" | "scoring" | "returned" | "panicked"
    deleted,                \* the borrowed deletion bitmap (BitVec)
    points,                 \* the candidate point ids
    scores,                 \* the caller's output buffer
    next_point,             \* position of the iterator over points (from 1)
    size,                   \* entries written so far; the return value
    \* threads sharing the opened inverted index
    shared,                 \* the index is handed to the writers and the reader
    writer_call,            \* per writer: the remove_document call it has issued
    calls_made,             \* per writer: calls that have run since the handover
    calls_done,             \* per point id: calls that have run since the handover
    calls_true,             \* per point id: how many of them returned true
    session_start,          \* deleted bits and live count at the handover
    reader_pos,             \* the point id an in-flight reader examines next
    reader_seen,            \* the ids its iterator has yielded
    \* a Simple and an Mmap boolean index given the same calls
    variants,               \* variant name -> BoolIndex value
    variants_last           \* the last call made on both

bool_vars == <<bool_pc, trues, falses, trues_count, falses_count,
               indexed_count, bool_files, bool_last>>

scorer_vars == <<scorer_pc, deleted, points, scores, next_point, size>>

writer_vars == <<shared, writer_call, calls_made, calls_done, calls_true,
                 session_start, reader_pos, reader_seen>>

variant_vars == <<variants, variants_last>>

\* What the inverted index does not own.
outside_index == <<hw_counter, bool_vars, scorer_vars, writer_vars, variant_vars>>

mii_vars == <<pc, immutable, postings, vocab, point_to_tokens_count, bitslice,
              pending_updates, active_points_count, is_on_disk, fresh, last>>

vars == <<mii_vars, hw_counter, bool_vars, scorer_vars, writer_vars, variant_vars>>

NoUpdates == [i \in {} |-> FALSE]

\* The fields of MmapInvertedIndex and the files they map.
TypeOK ==
    /\ pc \in {"built", "created", "ready", "closed", "panicked"}
    /\ DOMAIN postings = 0..(Cardinality(DOMAIN vocab) - 1)
    /\ \A i \in DOMAIN point_to_tokens_count : point_to_tokens_count[i] \in Nat
    /\ \A i \in DOMAIN bitslice : bitslice[i] \in BOOLEAN
    /\ DOMAIN point_to_tokens_count \subseteq DOMAIN bitslice
    /\ DOMAIN pending_updates \subseteq DOMAIN bitslice
    /\ active_points_count \in 0..(USIZE_MOD - 1)
    /\ is_on_disk \in BOOLEAN
    /\ fresh \in BOOLEAN
\* A call: its arguments, the value it returned, whether it returned an error
\* and whether it panicked instead of returning.
Call(op, query, id, ret, err, panic) ==
    [op |-> op, query |-> query, id |-> id, ret |-> ret, err |-> err, panic |-> panic]
Ok == "ok"
ServiceError == "service_error"

\* ------------------------------------------------- deleted-points overlay
\* MmapBitSliceBufferedUpdateWrapper::get: absent when i >= len, else the
\* pending update if there is one, else the mmap's bit.
deleted_points_get(i) ==
    IF i \notin DOMAIN bitslice THEN None
    ELSE IF i \in DOMAIN pending_updates THEN Some(pending_updates[i])
    ELSE Some(bitslice[i])

\* MmapBitSliceBufferedUpdateWrapper::set: stages the update.
deleted_points_set(i, v) ==
    [j \in DOMAIN pending_updates \cup {i} |-> IF j = i THEN v ELSE pending_updates[j]]

\* The flusher: drains the pending updates into the mmap.
deleted_points_flush ==
    [j \in DOMAIN bitslice |->
        IF j \in DOMAIN pending_updates THEN pending_updates[j] ELSE bitslice[j]]

count_ones(bits) == Cardinality({i \in DOMAIN bits : bits[i]})

\* ------------------------------------------------------------- create/open
\* MmapBitSlice::create: the bits given, then `tail` zero bits up to the file size.
MmapBitSliceCreate(bits, tail) ==
    [i \in 0..(SliceLen(bits) + tail - 1) |-> IF i \in DOMAIN bits THEN bits[i] ELSE FALSE]

\* The deleted bit of a point set when the point has a count.
CreateDeletedBitslice_IsSome(counts) == [i \in DOMAIN counts |-> counts[i] # None]

\* None values are represented as deleted in the bitslice.
CreateDeletedBitslice(counts) == [i \in DOMAIN counts |-> counts[i] = None]
\* The actual values go in the slice.
CreatePointToTokensCount(counts) == [i \in DOMAIN counts |-> UnwrapOr(counts[i], 0)]

Create(tail) ==
    /\ pc = "built"
    /\ postings' = immutable.postings
    /\ vocab' = immutable.vocab
    /\ bitslice' = MmapBitSliceCreate(CreateDeletedBitslice(immutable.point_to_tokens_count), tail)
    /\ point_to_tokens_count' = CreatePointToTokensCount(immutable.point_to_tokens_count)
    /\ pc' = "created"
    /\ fresh' = TRUE
    /\ last' = Call("create", <<>>, 0, TRUE, Ok, FALSE)
    /\ UNCHANGED <<immutable, pending_updates, active_points_count, is_on_disk>>
    /\ UNCHANGED outside_index

\* The live count taken from the length of the bitmap.
OpenPointsCount_BitmapLen == SliceLen(bitslice) - count_ones(bitslice)

\* point_to_tokens_count.len() - num_deleted_points, in usize.
OpenPointsCount == SliceLen(point_to_tokens_count) - count_ones(bitslice)

Open(populate) ==
    /\ pc \in {"created", "closed"}
    /\ pending_updates' = NoUpdates
    /\ UNCHANGED <<immutable, postings, vocab, point_to_tokens_count, bitslice, fresh>>
    /\ UNCHANGED outside_index
    /\ \/ \* the subtraction fits, or wraps (overflow checks off)
          /\ active_points_count' = OpenPointsCount % USIZE_MOD
          /\ is_on_disk' = ~populate
          /\ pc' = "ready"
          /\ last' = Call("open", <<>>, 0, TRUE, Ok, FALSE)
       \/ \* attempt to subtract with overflow (overflow checks on)
          /\ OpenPointsCount < 0
          /\ UNCHANGED <<active_points_count, is_on_disk>>
          /\ pc' = "panicked"
          /\ last' = Call("open", <<>>, 0, FALSE, Ok, TRUE)

\* ------------------------------------------------------------------ reads
\* is_active reading the mmap's bit and not the staged updates.
is_active_from_mmap(point_id) == ~UnwrapOr(SliceGet(bitslice, point_id), TRUE)

\* Returns whether the point id is valid and active.
is_active(point_id) == ~UnwrapOr(deleted_points_get(point_id), TRUE)

values_is_empty(point_id) ==
    IF UnwrapOr(deleted_points_get(point_id), TRUE) THEN TRUE
    ELSE LET count == SliceGet(point_to_tokens_count, point_id)
         IN IF count = None THEN TRUE ELSE Unwrap(count) = 0

values_count(point_id) ==
    IF UnwrapOr(deleted_points_get(point_id), TRUE) THEN 0
    ELSE UnwrapOr(SliceGet(point_to_tokens_count, point_id), 0)

points_count == active_points_count

\* MmapPostings::get: the posting of a token id, absent when out of range.
postings_get(token_id) == SliceGet(postings, token_id)
\* ChunkReader::contains
posting_contains(posting, point_id) == \E i \in DOMAIN posting : posting[i] = point_id

\* intersect_compressed_postings_iterator: a merge over the sorted readers.
\* Take the smallest current id; when every reader agrees on it, emit it if
\* the predicate (a function of the id) accepts it; advance the readers that
\* stand on it.
RECURSIVE intersect_postings(_, _)
intersect_postings(readers, accept) ==
    IF \E r \in DOMAIN readers : readers[r] = <<>> THEN <<>>
    ELSE LET smallest == Min({Head(readers[r]) : r \in DOMAIN readers})
             agree == \A r \in DOMAIN readers : Head(readers[r]) = smallest
             advanced == [r \in DOMAIN readers |->
                            IF Head(readers[r]) = smallest THEN Tail(readers[r])
                            ELSE readers[r]]
             rest == intersect_postings(advanced, accept)
         IN IF agree /\ accept[smallest] THEN <<smallest>> \o rest ELSE rest

\* filter that reads the posting of the first query token only.
filter_by_first_token(query) ==
    IF query = <<>> \/ postings_get(query[1]) = None THEN <<>>
    ELSE intersect_postings(<<Unwrap(postings_get(query[1]))>>,
                            [idx \in PointIds |-> is_active(idx)])

\* filter that drops the query tokens without a posting instead of giving up.
filter_skips_unseen(query) ==
    LET seen == SelectSeq(query, LAMBDA t : postings_get(t) # None)
    IN IF seen = <<>> THEN <<>>
       ELSE intersect_postings([i \in DOMAIN seen |-> Unwrap(postings_get(seen[i]))],
                               [idx \in PointIds |-> is_active(idx)])

\* filter without the is_active predicate on the agreed ids.
filter_keeps_deleted(query) ==
    LET postings_opt == [i \in DOMAIN query |-> postings_get(query[i])]
    IN IF \E i \in DOMAIN postings_opt : postings_opt[i] = None
       THEN <<>>
       ELSE IF postings_opt = <<>>
       THEN <<>>
       ELSE intersect_postings([i \in DOMAIN query |-> Unwrap(postings_opt[i])],
                               [idx \in PointIds |-> TRUE])

\* The ids filter's iterator yields, in order.
filter(query) ==
    LET postings_opt == [i \in DOMAIN query |-> postings_get(query[i])]
    IN IF \E i \in DOMAIN postings_opt : postings_opt[i] = None
       THEN <<>>     \* There are unseen tokens -> no matches
       ELSE IF postings_opt = <<>>
       THEN <<>>     \* Empty request -> no matches
       ELSE \* in case of mmap immutable index, deleted points are still in the postings
            intersect_postings([i \in DOMAIN query |-> Unwrap(postings_opt[i])],
                               [idx \in PointIds |-> is_active(idx)])

\* tokens.iter().all(|t| postings.get(t).unwrap().contains(point_id)):
\* left to right, stopping at the first false; unwrap panics on a missing posting.
RECURSIVE all_tokens_in_document(_, _)
all_tokens_in_document(tokens, point_id) ==
    IF tokens = <<>> THEN [panic |-> FALSE, value |-> TRUE]
    ELSE LET posting == postings_get(Head(tokens))
         IN IF posting = None THEN [panic |-> TRUE, value |-> FALSE]
            ELSE IF ~posting_contains(Unwrap(posting), point_id)
            THEN [panic |-> FALSE, value |-> FALSE]
            ELSE all_tokens_in_document(Tail(tokens), point_id)

check_match(parsed_query, point_id) ==
    IF parsed_query = <<>> THEN [panic |-> FALSE, value |-> FALSE]
    ELSE IF values_is_empty(point_id) THEN [panic |-> FALSE, value |-> FALSE]
    ELSE all_tokens_in_document(parsed_query, point_id)

\* Calls that leave every variable but `last` as it is.  Such a call made
\* directly after another one reaches the state it reaches from the state
\* before both, so they are explored from the states the other calls produce.
Observations == {"filter", "check_match", "values_is_empty", "values_count",
                 "points_count", "index_document"}
Observable == pc = "ready" /\ last.op \notin Observations

ReadFrame ==
    /\ UNCHANGED <<immutable, postings, vocab, point_to_tokens_count, bitslice,
                   pending_updates, active_points_count, is_on_disk, fresh>>
    /\ UNCHANGED outside_index

Filter(query) ==
    /\ Observable
    /\ last' = Call("filter", query, 0, filter(query), Ok, FALSE)
    /\ pc' = pc
    /\ ReadFrame

CheckMatch(parsed_query, point_id) ==
    /\ Observable
    /\ LET r == check_match(parsed_query, point_id)
       IN /\ last' = Call("check_match", parsed_query, point_id, r.value, Ok, r.panic)
          /\ pc' = IF r.panic THEN "panicked" ELSE pc
    /\ ReadFrame

ValuesIsEmpty(point_id) ==
    /\ Observable
    /\ last' = Call("values_is_empty", <<>>, point_id, values_is_empty(point_id), Ok, FALSE)
    /\ pc' = pc
    /\ ReadFrame

ValuesCount(point_id) ==
    /\ Observable
    /\ last' = Call("values_count", <<>>, point_id, values_count(point_id), Ok, FALSE)
    /\ pc' = pc
    /\ ReadFrame

PointsCount ==
    /\ Observable
    /\ last' = Call("points_count", <<>>, 0, points_count, Ok, FALSE)
    /\ pc' = pc
    /\ ReadFrame

\* ------------------------------------------------------------- mutations
\* unreachable!("MmapInvertedIndex does not support mutable operations")
GetVocabMut ==
    /\ Observable
    /\ last' = Call("get_vocab_mut", <<>>, 0, FALSE, Ok, TRUE)
    /\ pc' = "panicked"
    /\ ReadFrame

\* index_document that records the document's length as the point's count.
IndexDocument_Indexes(idx, document) ==
    /\ Observable
    /\ last' = Call("index_document", <<>>, idx, FALSE, ServiceError, FALSE)
    /\ pc' = pc
    /\ point_to_tokens_count' =
          [i \in DOMAIN point_to_tokens_count |->
              IF i = idx THEN Len(document) ELSE point_to_tokens_count[i]]
    /\ UNCHANGED <<immutable, postings, vocab, bitslice, pending_updates,
                   active_points_count, is_on_disk, fresh>>
    /\ UNCHANGED outside_index

\* Documents a caller may try to index: sequences of token ids.
Documents == SeqsUpTo(QueryTokenIds, 1)

\* Err(OperationError::service_error(..)); the arguments are not looked at.
IndexDocument(idx, document) ==
    /\ Observable
    /\ last' = Call("index_document", <<>>, idx, FALSE, ServiceError, FALSE)
    /\ pc' = pc
    /\ ReadFrame

\* remove_document without the "already removed" return.
remove_document_returns_false_once(idx) == deleted_points_get(idx) = None

\* The early returns of remove_document: the slot never existed, or the point
\* is already removed.
remove_document_returns_false(idx) ==
    LET is_deleted == deleted_points_get(idx)
    IN is_deleted = None \/ Unwrap(is_deleted)

\* Zeroing the counts of the point and of every point after it.
zero_tokens_count_from(idx) ==
    [i \in DOMAIN point_to_tokens_count |->
        IF i >= idx THEN 0 ELSE point_to_tokens_count[i]]

\* *count = 0 through point_to_tokens_count.get_mut(idx)
zero_tokens_count(idx) == [point_to_tokens_count EXCEPT ![idx] = 0]

remove_document(idx) ==
    /\ pc = "ready"
    /\ UNCHANGED <<immutable, postings, vocab, bitslice, is_on_disk, fresh>>
    /\ UNCHANGED <<hw_counter, bool_vars, scorer_vars, variant_vars>>
    /\ IF remove_document_returns_false(idx)
          THEN \* return false
               /\ last' = Call("remove_document", <<>>, idx, FALSE, Ok, FALSE)
               /\ pc' = pc
               /\ UNCHANGED <<pending_updates, point_to_tokens_count, active_points_count>>
          ELSE /\ pending_updates' = deleted_points_set(idx, TRUE)
               /\ IF idx \in DOMAIN point_to_tokens_count
                  THEN /\ point_to_tokens_count' = zero_tokens_count(idx)
                       /\ \/ \* the decrement fits, or wraps (overflow checks off)
                             /\ active_points_count' = (active_points_count - 1) % USIZE_MOD
                             /\ last' = Call("remove_document", <<>>, idx, TRUE, Ok, FALSE)
                             /\ pc' = pc
                          \/ \* attempt to subtract with overflow (overflow checks on)
                             /\ active_points_count = 0
                             /\ UNCHANGED active_points_count
                             /\ last' = Call("remove_document", <<>>, idx, FALSE, Ok, TRUE)
                             /\ pc' = "panicked"
                  ELSE /\ UNCHANGED <<point_to_tokens_count, active_points_count>>
                       /\ last' = Call("remove_document", <<>>, idx, TRUE, Ok, FALSE)
                       /\ pc' = pc

\* remove_document called by the owner of the index.
RemoveDocument(idx) == remove_document(idx) /\ UNCHANGED writer_vars

\* The deleted-points flusher, run by the owner of the index.
Flush ==
    /\ pc = "ready"
    /\ bitslice' = deleted_points_flush
    /\ pending_updates' = NoUpdates
    /\ last' = Call("flush", <<>>, 0, TRUE, Ok, FALSE)
    /\ pc' = pc
    /\ UNCHANGED <<immutable, postings, vocab, point_to_tokens_count,
                   active_points_count, is_on_disk, fresh>>
    /\ UNCHANGED outside_index

\* Dropping the index: the mappings go, staged updates that were not flushed
\* are lost, the files stay.
Close ==
    /\ pc = "ready"
    /\ pc' = "closed"
    /\ pending_updates' = NoUpdates
    /\ active_points_count' = 0
    /\ is_on_disk' = FALSE
    /\ fresh' = FALSE
    /\ last' = Call("close", <<>>, 0, TRUE, Ok, FALSE)
    /\ UNCHANGED <<immutable, postings, vocab, point_to_tokens_count, bitslice>>
    /\ UNCHANGED outside_index

\* ------------------------------------------------------- dictionary lookup
\* Bytes charged per entry read of the mmap hash map, besides the value.
READ_ENTRY_OVERHEAD == 8
\* size_of::<TokenId>(), TokenId a 32-bit unsigned integer.
SIZE_OF_TOKEN_ID == 4
\* Token strings callers look up; "zz" is in no vocabulary.
LookupTokens == Tokens \cup {"zz"}

\* vocab.get(token).ok().flatten().and_then(first).copied()
vocab_get(token) == IF token \in DOMAIN vocab THEN Some(vocab[token]) ELSE None

\* The charge made only when the token is in the vocabulary.
get_token_id_io_read_if_present(token) ==
    IF is_on_disk /\ token \in DOMAIN vocab
    THEN READ_ENTRY_OVERHEAD + SIZE_OF_TOKEN_ID ELSE 0

\* What get_token_id adds to payload_index_io_read before it looks the token
\* up: "avoid check overhead and assume token is always read".
get_token_id_io_read(token) ==
    IF is_on_disk THEN READ_ENTRY_OVERHEAD + SIZE_OF_TOKEN_ID ELSE 0

GetTokenId(token) ==
    /\ pc = "ready"
    /\ hw_counter < MaxLookups * (READ_ENTRY_OVERHEAD + SIZE_OF_TOKEN_ID)
    /\ hw_counter' = hw_counter + get_token_id_io_read(token)
    /\ last' = Call("get_token_id", <<token>>, 0, vocab_get(token), Ok, FALSE)
    /\ UNCHANGED <<pc, immutable, postings, vocab, point_to_tokens_count, bitslice,
                   pending_updates, active_points_count, is_on_disk, fresh>>
    /\ UNCHANGED <<bool_vars, scorer_vars, writer_vars, variant_vars>>

\* ------------------------------------------------ threads sharing the index
\* remove_document takes `&mut self`, filter takes `&'a self` and its iterator
\* keeps that borrow: threads reach a shared index through a lock that gives
\* the borrow out, exclusive to one writer or shared among readers.  A call
\* made under the exclusive borrow is one step: nothing else can touch the
\* instance between taking the borrow and giving it back.
Writers == 1..MaxWriters
\* The query of the reader: the first token of the vocabulary.
ReaderQuery == <<0>>

WritersIdle ==
    /\ shared = FALSE
    /\ writer_call = [w \in Writers |-> None]
    /\ calls_made = [w \in Writers |-> 0]
    /\ calls_done = [id \in PointIds |-> 0]
    /\ calls_true = [id \in PointIds |-> 0]
    /\ session_start = [deleted |-> NoUpdates, count |-> 0]
    /\ reader_pos = None
    /\ reader_seen = <<>>

IndexFrame == UNCHANGED <<mii_vars, hw_counter, bool_vars, scorer_vars, variant_vars>>

\* The owner hands the opened index to the threads.
Share ==
    /\ pc = "ready" /\ ~shared
    /\ shared' = TRUE
    /\ session_start' =
          [deleted |-> [i \in DOMAIN bitslice |-> Unwrap(deleted_points_get(i))],
           count |-> active_points_count]
    /\ UNCHANGED <<writer_call, calls_made, calls_done, calls_true, reader_pos, reader_seen>>
    /\ IndexFrame

\* A writer issues remove_document(idx); the call waits for the exclusive borrow.
WriterIssue(w, idx) ==
    /\ pc = "ready" /\ shared
    /\ writer_call[w] = None
    /\ calls_made[w] < MaxWriterCalls
    /\ writer_call' = [writer_call EXCEPT ![w] = Some(idx)]
    /\ UNCHANGED <<shared, calls_made, calls_done, calls_true, session_start,
                   reader_pos, reader_seen>>
    /\ IndexFrame

\* The writer gets the exclusive borrow (no reader holds the index) and its
\* call runs.
WriterRemoveDocument(w) ==
    /\ shared
    /\ writer_call[w] # None
    /\ reader_pos = None
    /\ LET idx == Unwrap(writer_call[w])
       IN /\ remove_document(idx)
          /\ calls_done' = [calls_done EXCEPT ![idx] = @ + 1]
          /\ calls_true' = [calls_true EXCEPT ![idx] =
                                IF last'.ret = TRUE /\ ~last'.panic THEN @ + 1 ELSE @]
    /\ writer_call' = [writer_call EXCEPT ![w] = None]
    /\ calls_made' = [calls_made EXCEPT ![w] = @ + 1]
    /\ UNCHANGED <<shared, session_start, reader_pos, reader_seen>>

\* A reader takes a shared borrow and calls filter: it holds the iterator.
ReaderFilter ==
    /\ pc = "ready" /\ shared
    /\ reader_pos = None
    /\ postings_get(ReaderQuery[1]) # None
    /\ reader_pos' = Some(1)
    /\ reader_seen' = <<>>
    /\ UNCHANGED <<shared, writer_call, calls_made, calls_done, calls_true, session_start>>
    /\ IndexFrame

\* The iterator is advanced: the next id of the posting is yielded when
\* is_active accepts it.
ReaderNext ==
    /\ reader_pos # None
    /\ LET posting == Unwrap(postings_get(ReaderQuery[1]))
           i == Unwrap(reader_pos)
       IN /\ i \in DOMAIN posting
          /\ reader_seen' = IF is_active(posting[i]) THEN Append(reader_seen, posting[i])
                            ELSE reader_seen
          /\ reader_pos' = Some(i + 1)
    /\ UNCHANGED <<shared, writer_call, calls_made, calls_done, calls_true, session_start>>
    /\ IndexFrame

\* The iterator is exhausted and dropped: the shared borrow ends.
ReaderDone ==
    /\ reader_pos # None
    /\ Unwrap(reader_pos) \notin DOMAIN Unwrap(postings_get(ReaderQuery[1]))
    /\ reader_pos' = None
    /\ reader_seen' = <<>>
    /\ UNCHANGED <<shared, writer_call, calls_made, calls_done, calls_true, session_start>>
    /\ IndexFrame

\* The threads are joined: the owner has the index to itself again.
Join ==
    /\ shared
    /\ reader_pos = None
    /\ \A w \in Writers : writer_call[w] = None
    /\ shared' = FALSE
    /\ writer_call' = [w \in Writers |-> None]
    /\ calls_made' = [w \in Writers |-> 0]
    /\ calls_done' = [id \in PointIds |-> 0]
    /\ calls_true' = [id \in PointIds |-> 0]
    /\ session_start' = [deleted |-> NoUpdates, count |-> 0]
    /\ reader_seen' = <<>>
    /\ UNCHANGED reader_pos
    /\ IndexFrame

\* Flushing the overlay excludes readers in flight.
FlushExclusive == reader_pos = None /\ Flush

\* Dropping takes the index by value: only its owner, with no borrow out.
CloseOwned == ~shared /\ Close

\* ---------------------------------------------------------- specification
\* No boolean index under the path: nothing opened, nothing stored.
NoFlags == [trues |-> {}, falses |-> {}]
BoolCall(op, id, payload, value, ret, synced) ==
    [op |-> op, id |-> id, payload |-> payload, value |-> value, ret |-> ret,
     synced |-> synced]
BoolIdle ==
    /\ bool_pc = "dropped"
    /\ trues = {} /\ falses = {}
    /\ trues_count = 0 /\ falses_count = 0 /\ indexed_count = 0
    /\ bool_files = NoFlags
    /\ bool_last = BoolCall("none", 0, <<>>, FALSE, FALSE, FALSE)

\* No pair of boolean indexes is open.
NoVariants == <<>>
\* A call made on both variants and what each returned.
VariantCall(op, id, payload, value, ret) ==
    [op |-> op, id |-> id, payload |-> payload, value |-> value, ret |-> ret]
VariantsIdle ==
    /\ variants = NoVariants
    /\ variants_last = VariantCall("none", 0, <<>>, FALSE, <<>>)

\* No score_points call is under way.
ScorerIdle ==
    /\ scorer_pc = "idle"
    /\ deleted = <<>> /\ points = <<>> /\ scores = <<>>
    /\ next_point = 1 /\ size = 0

Init ==
    /\ BoolIdle
    /\ ScorerIdle
    /\ WritersIdle
    /\ VariantsIdle
    /\ pc = "built"
    /\ immutable \in {Build(docs) : docs \in DocVectors}
    /\ postings = <<>>
    /\ vocab = <<>>
    /\ point_to_tokens_count = EmptySlice
    /\ bitslice = NoUpdates
    /\ pending_updates = NoUpdates
    /\ active_points_count = 0
    /\ is_on_disk = FALSE
    /\ fresh = FALSE
    /\ last = Call("build", <<>>, 0, TRUE, Ok, FALSE)
    /\ hw_counter = 0

Next ==
    \/ \E tail \in 0..MaxTail : Create(tail)
    \/ \E populate \in BOOLEAN : Open(populate)
    \/ \E query \in Queries : Filter(query)
    \/ \E query \in Queries, point_id \in PointIds : CheckMatch(query, point_id)
    \/ \E point_id \in PointIds : ValuesIsEmpty(point_id)
    \/ \E point_id \in PointIds : ValuesCount(point_id)
    \/ PointsCount
    \/ GetVocabMut
    \/ \E idx \in PointIds, document \in Documents : IndexDocument(idx, document)
    \/ \E idx \in PointIds : RemoveDocument(idx)
    \/ Flush
    \/ Close

Spec == Init /\ [][Next]_vars

\* The dictionary lookups of an index through its sessions.
NextLookup ==
    \/ \E tail \in 0..MaxTail : Create(tail)
    \/ \E populate \in BOOLEAN : Open(populate)
    \/ \E token \in LookupTokens : GetTokenId(token)
    \/ Close

SpecLookup == Init /\ [][NextLookup]_vars

\* An index of documents over one token, shared by writers and a reader.
InitWriters ==
    /\ Init
    /\ \A t \in DOMAIN immutable.vocab : t = TokenSeq[1]

NextWriters ==
    \/ \E tail \in 0..MaxTail : Create(tail)
    \/ Open(FALSE)
    \/ Share
    \/ \E w \in Writers, idx \in PointIds : WriterIssue(w, idx)
    \/ \E w \in Writers : WriterRemoveDocument(w)
    \/ ReaderFilter
    \/ ReaderNext
    \/ ReaderDone
    \/ FlushExclusive
    \/ Join
    \/ CloseOwned

SpecWriters == InitWriters /\ [][NextWriters]_vars

\* ------------------------------------------------------------------ claims
Ready == pc = "ready"
\* The logical state of a slot of the deleted-points overlay.
SlotClear(id) == deleted_points_get(id) = Some(FALSE)
\* Every token of the query has a posting.
AllHavePosting(query) == \A i \in DOMAIN query : postings_get(query[i]) # None
\* The point is in the posting of every token of the query.
InEveryPosting(query, id) ==
    \A i \in DOMAIN query : posting_contains(Unwrap(postings_get(query[i])), id)

\* C1: for a query of one or more tokens that all have a posting, filter yields
\* a point id exactly when the id is in the posting of every query token and
\* is_active(id) holds, and it yields nothing else.
C1_FilterAndSemantics ==
    (last.op = "filter" /\ last.query # <<>> /\ AllHavePosting(last.query)) =>
        /\ Range(last.ret) \subseteq PointIds
        /\ \A id \in PointIds :
              id \in Range(last.ret) <=> (InEveryPosting(last.query, id) /\ is_active(id))

\* A two-token filter that yields a point and withholds another one, which is in
\* both postings, because it was removed.
C1_Witness ==
    /\ last.op = "filter" /\ Len(last.query) = 2 /\ last.query[1] # last.query[2]
    /\ AllHavePosting(last.query)
    /\ last.ret # <<>>
    /\ \E id \in DOMAIN pending_updates :
          InEveryPosting(last.query, id) /\ id \notin Range(last.ret)

Opened == pc \in {"ready", "panicked"}

\* C3: once remove_document(id) has returned, id's slot is not clear; a slot
\* that is not clear stays as it is for the rest of the session, flushed or not;
\* and while it is not clear no call of filter yields id, every call of
\* check_match(query, id) returns false, values_is_empty(id) returns true and
\* values_count(id) returns 0.
C3_DeletionVisible ==
    /\ []((Opened /\ last.op = "remove_document") => ~SlotClear(last.id))
    /\ [][(Opened /\ Opened') =>
            \A id \in PointIds :
                ~SlotClear(id) => (deleted_points_get(id))' = deleted_points_get(id)
         ]_vars
    /\ [](/\ last.op = "filter" => \A id \in Range(last.ret) : SlotClear(id)
          /\ (last.op = "check_match" /\ ~SlotClear(last.id)) =>
                (last.ret = FALSE /\ ~last.panic)
          /\ (last.op = "values_is_empty" /\ ~SlotClear(last.id)) => last.ret = TRUE
          /\ (last.op = "values_count" /\ ~SlotClear(last.id)) => last.ret = 0)

\* A point with a document was removed in the first session, the overlay was
\* flushed, and a later filter over postings that all hold the point withholds it.
C3_Witness ==
    /\ fresh /\ last.op = "filter" /\ last.query # <<>> /\ AllHavePosting(last.query)
    /\ \E id \in DOMAIN immutable.point_to_tokens_count :
          /\ immutable.point_to_tokens_count[id] # None
          /\ bitslice[id]
          /\ InEveryPosting(last.query, id)
          /\ id \notin Range(last.ret)

\* The builder's count vector.
BuilderCounts == immutable.point_to_tokens_count
\* The index was created and has just been opened for the first time.
FirstOpened == Ready /\ fresh /\ last.op = "open"
\* Points of the count slice whose deleted bit is not set.
LivePoints == {i \in DOMAIN point_to_tokens_count : SlotClear(i)}

\* C4: in every state of an opened index, points_count() is the number of ids
\* i < len(point_to_tokens_count) whose deleted bit is not set.
C4_LiveCount == Ready => points_count = Cardinality(LivePoints)

\* C5: after create and open, active_points_count is the number of non-None
\* entries of the builder's count vector, whatever the number of bits the
\* deleted-points bitmap holds beyond the count slice.
C5_PersistedLiveCount ==
    FirstOpened =>
        active_points_count = Cardinality({i \in DOMAIN BuilderCounts : BuilderCounts[i] # None})

\* A first open of an index whose count vector holds a None and a Some entry
\* and whose bitmap is longer than the count slice.
C5_Witness ==
    /\ FirstOpened
    /\ SliceLen(bitslice) > SliceLen(point_to_tokens_count)
    /\ \E i, j \in DOMAIN BuilderCounts : BuilderCounts[i] = None /\ BuilderCounts[j] # None

\* C6: after create and open, for every point id i, values_count(i) is n when
\* the builder's entry is Some(n) and 0 when it is None or i is out of range, and
\* values_is_empty(i) holds exactly when the entry is None, Some(0) or out of range.
C6_CountsRoundTrip ==
    FirstOpened =>
        \A i \in PointIds :
            LET entry == SliceGet(BuilderCounts, i)
                n == IF entry = None THEN 0 ELSE UnwrapOr(Unwrap(entry), 0)
            IN /\ values_count(i) = n
               /\ values_is_empty(i) <=> (n = 0)

\* A first open of an index with a None entry, an empty document and a document
\* of two tokens.
C6_Witness ==
    /\ FirstOpened
    /\ \E i, j \in DOMAIN BuilderCounts :
          /\ BuilderCounts[i] = None
          /\ BuilderCounts[j] = Some(2) /\ values_count(j) = 2 /\ ~values_is_empty(j)

\* C7: active_points_count never increases from one state of an opened instance
\* to the next.
C7_MonotoneLiveCount ==
    [][(Ready /\ Opened') => active_points_count' <= active_points_count]_vars

\* C8: filter and check_match return a result for every query and point id; they
\* never panic.
C8_QueriesDoNotFail == last.op \in {"filter", "check_match"} => ~last.panic

\* C9 as stated: no operation on an opened index changes the postings, the
\* vocabulary or the point_to_tokens_count slice.
C9_StructuralRegionsReadOnly ==
    [][(Ready /\ Opened') => UNCHANGED <<postings, vocab, point_to_tokens_count>>]_vars

\* C9, amended: no operation on an opened index changes the postings or the
\* vocabulary; the point_to_tokens_count slice is changed only by a
\* remove_document(idx) with idx in bounds of the slice and a clear slot, which
\* sets the count of idx to 0 and leaves the other counts; the overlay (staged
\* updates and bitmap) is changed only by remove_document and flush, and the
\* cached live count only by remove_document.
C9_DeletionFrame ==
    [][(Ready /\ Opened') =>
        /\ UNCHANGED <<postings, vocab>>
        /\ point_to_tokens_count' # point_to_tokens_count =>
              /\ last'.op = "remove_document"
              /\ last'.id \in DOMAIN point_to_tokens_count /\ SlotClear(last'.id)
              /\ DOMAIN point_to_tokens_count' = DOMAIN point_to_tokens_count
              /\ \A i \in DOMAIN point_to_tokens_count :
                    point_to_tokens_count'[i] =
                        IF i = last'.id THEN 0 ELSE point_to_tokens_count[i]
        /\ <<bitslice, pending_updates>>' # <<bitslice, pending_updates>> =>
              last'.op \in {"remove_document", "flush"}
        /\ active_points_count' # active_points_count => last'.op = "remove_document"
      ]_vars

\* remove_document has zeroed the count of a point with a document and left the
\* count of another point with a document.
C9_Witness ==
    /\ Ready /\ fresh /\ last.op = "remove_document" /\ last.ret = TRUE
    /\ last.id \in DOMAIN BuilderCounts /\ BuilderCounts[last.id] \notin {None, Some(0)}
    /\ point_to_tokens_count[last.id] = 0
    /\ \E j \in DOMAIN point_to_tokens_count : point_to_tokens_count[j] > 0

\* C10 as stated: index_document and get_vocab_mut return a service error to
\* the caller.
C10_MutationReturnsServiceError ==
    last.op \in {"index_document", "get_vocab_mut"} =>
        (last.err = ServiceError /\ ~last.panic)

\* C10, amended: index_document returns a service error for every argument and
\* in every state; get_vocab_mut returns nothing, it panics; both leave the
\* postings, the vocabulary, the counts, the deleted bits and
\* active_points_count unchanged.
C10_MutationRejected ==
    /\ [](/\ last.op = "index_document" => (last.err = ServiceError /\ ~last.panic)
          /\ last.op = "get_vocab_mut" => (last.panic /\ pc = "panicked"))
    /\ [][last'.op \in {"index_document", "get_vocab_mut"} =>
            UNCHANGED <<postings, vocab, point_to_tokens_count, bitslice,
                        pending_updates, active_points_count>>
         ]_vars

\* index_document was refused for a point of the count slice while a deletion
\* was staged.
C10_Witness ==
    /\ last.op = "index_document" /\ last.err = ServiceError
    /\ last.id \in DOMAIN point_to_tokens_count
    /\ pending_updates # NoUpdates

\* Number of occurrences of x in the sequence s.
Occurrences(s, x) == Cardinality({i \in DOMAIN s : s[i] = x})
\* p is a permutation of q: the same tokens, each as many times.
IsPermutation(p, q) ==
    Len(p) = Len(q) /\ \A x \in QueryTokenIds : Occurrences(p, x) = Occurrences(q, x)

\* C11: in every reachable state, what a filter call yielded for a query is, as a
\* set of point ids, what filter yields for every permutation of that query.
C11_QueryCommutativity ==
    last.op = "filter" =>
        \A p \in Queries :
            IsPermutation(p, last.query) => Range(filter(p)) = Range(last.ret)

\* A filter over two tokens with different postings that yielded a point while
\* another point of the first posting was left out.
C11_Witness ==
    /\ last.op = "filter" /\ Len(last.query) = 2 /\ AllHavePosting(last.query)
    /\ postings_get(last.query[1]) # postings_get(last.query[2])
    /\ last.ret # <<>>

\* C12: filter yields no point id when the query has no tokens or when some
\* query token, at whatever position, has no posting; check_match returns false
\* for every point id when the query has no tokens.
C12_DegenerateQueries ==
    /\ (last.op = "filter" /\ (last.query = <<>> \/ ~AllHavePosting(last.query)))
            => last.ret = <<>>
    /\ (last.op = "check_match" /\ last.query = <<>>)
            => (last.ret = FALSE /\ ~last.panic)

\* A filter whose first token has a posting with a live point and whose second
\* token has no posting yielded nothing.
C12_Witness ==
    /\ last.op = "filter" /\ Len(last.query) = 2
    /\ postings_get(last.query[1]) # None /\ postings_get(last.query[2]) = None
    /\ \E id \in PointIds :
          posting_contains(Unwrap(postings_get(last.query[1])), id) /\ is_active(id)
    /\ last.ret = <<>>

\* The token looked up by the last get_token_id call.
LookedUp == last.query[1]

\* C13 as stated: a get_token_id of a token that is absent from the vocabulary
\* leaves the counter unchanged; of a present token it adds
\* READ_ENTRY_OVERHEAD + size_of::<TokenId>() when the index is on disk; an index
\* opened with populate = true never adds anything.
C13_AbsentLookupIsFree ==
    [][last'.op = "get_token_id" =>
          hw_counter' - hw_counter =
              IF is_on_disk /\ last'.ret # None
              THEN READ_ENTRY_OVERHEAD + SIZE_OF_TOKEN_ID ELSE 0
      ]_vars

\* C13, amended: every get_token_id on an index opened with populate = false
\* adds READ_ENTRY_OVERHEAD + size_of::<TokenId>() to the counter, whether the
\* token is in the vocabulary or not; on an index opened with populate = true
\* no lookup changes the counter; the call returns the token's id exactly when
\* the vocabulary holds the token.
C13_LookupCharge ==
    [][last'.op = "get_token_id" =>
          /\ hw_counter' - hw_counter =
                IF is_on_disk THEN READ_ENTRY_OVERHEAD + SIZE_OF_TOKEN_ID ELSE 0
          /\ last'.ret # None <=> last'.query[1] \in DOMAIN vocab
          /\ last'.ret # None => Unwrap(last'.ret) = vocab[last'.query[1]]
      ]_vars

\* On an index on disk a present token and then an absent one were looked up,
\* and both were charged.
C13_Witness ==
    /\ pc = "ready" /\ is_on_disk /\ vocab # <<>>
    /\ last.op = "get_token_id" /\ last.ret = None
    /\ hw_counter = 2 * (READ_ENTRY_OVERHEAD + SIZE_OF_TOKEN_ID)

\* ----------------------------------------------------- boolean field index
\* A JSON value is its items (the JSON text of each scalar) and whether it is
\* an array.
JsonScalar(x) == [array |-> FALSE, items |-> <<x>>]
JsonArray(a) == [array |-> TRUE, items |-> a]
\* Payload values, taken from the fixture of the tests: both bools, arrays
\* with both, with a repeated one and in either order, and the three values
\* that are no bool.
JsonValues ==
    { JsonScalar("true"),
      JsonScalar("false"),
      JsonArray(<<"true", "false">>),
      JsonArray(<<"false", "true">>),
      JsonArray(<<"false", "false">>),
      JsonScalar("null"),
      JsonScalar("1"),
      JsonScalar("test") }
\* Thresholds given to payload_blocks.
Thresholds == {0, 1}
\* add_point takes a slice of values; the field holds one value.
Payloads == {<<v>> : v \in JsonValues}
BoolPointIds == 0..(MaxBoolPoints - 1)

\* get_value that reads the number 1 as true.
get_value_truthy(value) ==
    IF value \in {"true", "1"} THEN Some(TRUE)
    ELSE IF value = "false" THEN Some(FALSE) ELSE None

\* get_value that reads null as false.
get_value_null_is_false(value) ==
    IF value = "true" THEN Some(TRUE)
    ELSE IF value \in {"false", "null"} THEN Some(FALSE) ELSE None

\* serde_json::Value::Bool(value) => Some(*value), _ => None
get_value(value) ==
    IF value = "true" THEN Some(TRUE)
    ELSE IF value = "false" THEN Some(FALSE)
    ELSE None

\* The booleans of one payload value: of each element of an array, or of the
\* value itself.
value_bools(v) ==
    LET kept == SelectSeq(v.items, LAMBDA x : get_value(x) # None)
    IN [i \in DOMAIN kept |-> Unwrap(get_value(kept[i]))]

\* ValueIndexer::add_point's flattening of the payload slice.
RECURSIVE flatten_values(_)
flatten_values(payload) ==
    IF payload = <<>> THEN <<>>
    ELSE value_bools(Head(payload)) \o flatten_values(Tail(payload))

\* The flags and cached counts of an opened index.
Memory ==
    [trues |-> trues, falses |-> falses, trues_count |-> trues_count,
     falses_count |-> falses_count, indexed_count |-> indexed_count]

\* Setting one flag of a set, and the cached count that follows it.
SetFlag(flags, id, v) == IF v THEN flags \cup {id} ELSE flags \ {id}
CountAfter(count, was, is) ==
    IF ~was /\ is THEN count + 1
    ELSE IF was /\ ~is THEN IF count = 0 THEN 0 ELSE count - 1
    ELSE count

\* set_or_insert: both flags of the point are overwritten; the counts follow.
set_or_insert(mem, id, has_true, has_false) ==
    [trues |-> SetFlag(mem.trues, id, has_true),
     falses |-> SetFlag(mem.falses, id, has_false),
     trues_count |-> CountAfter(mem.trues_count, id \in mem.trues, has_true),
     falses_count |-> CountAfter(mem.falses_count, id \in mem.falses, has_false),
     indexed_count |-> CountAfter(mem.indexed_count,
                                  id \in mem.trues \/ id \in mem.falses,
                                  has_true \/ has_false)]

\* remove_point that leaves the flags of the point as they are.
BoolIndex_remove_point_keeps(mem, id) == mem

\* remove_point: both flags of the point are cleared.
BoolIndex_remove_point(mem, id) == set_or_insert(mem, id, FALSE, FALSE)

\* add_many: nothing for no values; else the point is flagged true when some
\* value is true and false when some value is false.
BoolIndex_add_many(mem, id, values) ==
    IF values = <<>> THEN mem
    ELSE set_or_insert(mem, id,
                       \E i \in DOMAIN values : values[i],
                       \E i \in DOMAIN values : ~values[i])

\* ValueIndexer::add_point: remove_point(id), then add_many(id, flattened).
add_point(mem, id, payload) ==
    BoolIndex_add_many(BoolIndex_remove_point(mem, id), id, flatten_values(payload))

\* filter(match value): a scan of the flags of the value from offset 0 up,
\* yielding the offsets whose flag is set.
BoolIndex_filter(value) ==
    SelectSeq([i \in 1..MaxBoolPoints |-> i - 1],
              LAMBDA id : id \in (IF value THEN trues ELSE falses))
BoolIndex_count_indexed_points == indexed_count
\* estimate_cardinality(match value).exp
BoolIndex_estimate_cardinality(value) == IF value THEN trues_count ELSE falses_count
\* payload_blocks(threshold): a block per value whose count passes the
\* threshold (reaching it is enough when `inclusive`); each block is its value
\* and its cardinality.
BoolIndex_payload_blocks(threshold, inclusive) ==
    SelectSeq(<<[value |-> TRUE, cardinality |-> trues_count],
                [value |-> FALSE, cardinality |-> falses_count]>>,
              LAMBDA b : b.cardinality > threshold
                            \/ (inclusive /\ b.cardinality = threshold))

\* The flags read back from the storage, with the counts taken from them.
FromFiles(files) ==
    [trues |-> files.trues, falses |-> files.falses,
     trues_count |-> Cardinality(files.trues),
     falses_count |-> Cardinality(files.falses),
     indexed_count |-> Cardinality(files.trues \cup files.falses)]

\* The flusher leaving the storage as it is.
BoolIndex_flusher_noop == bool_files

\* What the storage holds once the flusher has run.
BoolIndex_flusher == [trues |-> trues, falses |-> falses]

\* What the callers of the read methods see.
BoolObserved ==
    [filter_true |-> BoolIndex_filter(TRUE), filter_false |-> BoolIndex_filter(FALSE),
     indexed |-> BoolIndex_count_indexed_points]

SetMemory(mem) ==
    /\ trues' = mem.trues
    /\ falses' = mem.falses
    /\ trues_count' = mem.trues_count
    /\ falses_count' = mem.falses_count
    /\ indexed_count' = mem.indexed_count

BoolFrame == UNCHANGED <<mii_vars, hw_counter, scorer_vars, writer_vars, variant_vars>>

\* I::open_at(path) of a path nothing was stored under.
BoolCreate ==
    /\ bool_pc = "dropped" /\ bool_last.op = "none"
    /\ bool_pc' = "open"
    /\ SetMemory(FromFiles(bool_files))
    /\ bool_last' = BoolCall("open_at", 0, <<>>, FALSE, TRUE, FALSE)
    /\ UNCHANGED bool_files
    /\ BoolFrame

AddPoint(id, payload) ==
    /\ bool_pc = "open"
    /\ SetMemory(add_point(Memory, id, payload))
    /\ bool_last' = BoolCall("add_point", id, payload, FALSE, Ok, FALSE)
    /\ UNCHANGED <<bool_pc, bool_files>>
    /\ BoolFrame

RemovePoint(id) ==
    /\ bool_pc = "open"
    /\ SetMemory(BoolIndex_remove_point(Memory, id))
    /\ bool_last' = BoolCall("remove_point", id, <<>>, FALSE, Ok, FALSE)
    /\ UNCHANGED <<bool_pc, bool_files>>
    /\ BoolFrame

BoolFlusher ==
    /\ bool_pc = "open"
    /\ bool_files' = BoolIndex_flusher
    /\ bool_last' = BoolCall("flusher", 0, <<>>, FALSE, Ok, FALSE)
    /\ UNCHANGED <<bool_pc, trues, falses, trues_count, falses_count, indexed_count>>
    /\ BoolFrame

\* drop(index): the instance goes; changes made since the last flush may or
\* may not have reached the storage.  The call record keeps what the read
\* methods returned last and whether the flusher ran right before.
BoolDrop ==
    /\ bool_pc = "open"
    /\ bool_pc' = "dropped"
    /\ bool_files' \in {bool_files, [trues |-> trues, falses |-> falses]}
    /\ SetMemory(FromFiles(NoFlags))
    /\ bool_last' = BoolCall("drop", 0, <<>>, FALSE, BoolObserved,
                             bool_last.op = "flusher")
    /\ BoolFrame

\* I::open_at(path) of a path that was used before: the stored flags are read.
BoolOpenAt ==
    /\ bool_pc = "dropped" /\ bool_last.op = "drop"
    /\ bool_pc' = "open"
    /\ SetMemory(FromFiles(bool_files))
    /\ bool_last' = BoolCall("open_at", 0, <<>>, FALSE, TRUE, bool_last.synced)
    /\ UNCHANGED bool_files
    /\ BoolFrame

\* Reads of the boolean index, explored from the states the other calls produce.
BoolObservations == {"load", "filter", "count_indexed_points", "estimate_cardinality",
                     "payload_blocks"}
BoolObservable == bool_pc = "open" /\ bool_last.op \notin BoolObservations
BoolReadFrame ==
    /\ UNCHANGED <<bool_pc, trues, falses, trues_count, falses_count,
                   indexed_count, bool_files>>
    /\ BoolFrame

\* load(): true, the index is there; the flags are the ones the storage has.
BoolLoad ==
    /\ BoolObservable
    /\ bool_last' = BoolCall("load", 0, <<>>, FALSE, TRUE, FALSE)
    /\ BoolReadFrame

BoolFilter(value) ==
    /\ BoolObservable
    /\ bool_last' = BoolCall("filter", 0, <<>>, value, BoolIndex_filter(value), FALSE)
    /\ BoolReadFrame

CountIndexedPoints ==
    /\ BoolObservable
    /\ bool_last' = BoolCall("count_indexed_points", 0, <<>>, FALSE,
                             BoolIndex_count_indexed_points, FALSE)
    /\ BoolReadFrame

EstimateCardinality(value) ==
    /\ BoolObservable
    /\ bool_last' = BoolCall("estimate_cardinality", 0, <<>>, value,
                             BoolIndex_estimate_cardinality(value), FALSE)
    /\ BoolReadFrame

PayloadBlocks(threshold, inclusive) ==
    /\ BoolObservable
    /\ bool_last' = BoolCall("payload_blocks", threshold, <<>>, FALSE,
                             BoolIndex_payload_blocks(threshold, inclusive), FALSE)
    /\ BoolReadFrame

\* The inverted index is not built; the boolean index has no storage yet.
IndexIdle ==
    /\ pc = "built"
    /\ immutable = Build(<<>>)
    /\ postings = <<>>
    /\ vocab = <<>>
    /\ point_to_tokens_count = EmptySlice
    /\ bitslice = NoUpdates
    /\ pending_updates = NoUpdates
    /\ active_points_count = 0
    /\ is_on_disk = FALSE
    /\ fresh = FALSE
    /\ last = Call("build", <<>>, 0, TRUE, Ok, FALSE)
    /\ hw_counter = 0
    /\ WritersIdle
    /\ VariantsIdle

InitBool == BoolIdle /\ ScorerIdle /\ IndexIdle

NextBool ==
    \/ BoolCreate
    \/ \E id \in BoolPointIds, payload \in Payloads : AddPoint(id, payload)
    \/ \E id \in BoolPointIds : RemovePoint(id)
    \/ BoolFlusher
    \/ BoolDrop
    \/ BoolOpenAt
    \/ BoolLoad
    \/ \E value \in BOOLEAN : BoolFilter(value)
    \/ CountIndexedPoints
    \/ \E value \in BOOLEAN : EstimateCardinality(value)
    \/ \E threshold \in Thresholds, inclusive \in BOOLEAN :
          PayloadBlocks(threshold, inclusive)

SpecBool == InitBool /\ [][NextBool]_vars

\* The JSON text of a boolean.
JsonBool(v) == IF v THEN "true" ELSE "false"
\* The payload is the JSON bool v or an array with an element equal to v.
PayloadHolds(payload, v) ==
    \E i \in DOMAIN payload : \E j \in DOMAIN payload[i].items :
        payload[i].items[j] = JsonBool(v)
\* The point offsets filter(v) yields.
Matching(v) == Range(BoolIndex_filter(v))
StrictlyAscending(s) == \A i, j \in DOMAIN s : i < j => s[i] < s[j]

\* C14: after an add_point(id, payload), id is in filter(v) exactly when the
\* payload just given holds v, whatever the point was flagged with before; the
\* memberships of the other points are as they were; and no read, load or flush
\* changes a membership.
C14_ReplaceOnWrite ==
    [][/\ bool_last'.op = "add_point" =>
            \A v \in BOOLEAN :
                /\ bool_last'.id \in Matching(v)' <=> PayloadHolds(bool_last'.payload, v)
                /\ \A other \in BoolPointIds \ {bool_last'.id} :
                      other \in Matching(v)' <=> other \in Matching(v)
       /\ bool_last'.op \in (BoolObservations \cup {"flusher"}) =>
            \A v \in BOOLEAN : Matching(v)' = Matching(v)
      ]_vars

\* A point stored as false (and flushed so) was overwritten with true: it is in
\* filter(true) and no more in filter(false).
C14_Witness ==
    /\ bool_last.op = "add_point"
    /\ bool_last.payload = <<JsonScalar("true")>>
    /\ bool_last.id \in bool_files.falses
    /\ bool_last.id \in Matching(TRUE) /\ bool_last.id \notin Matching(FALSE)

\* C15: a filter(v) that follows add_point(id, payload) yields id exactly when
\* the payload is the JSON bool v or an array with an element equal to v; null,
\* numbers and strings put the point in neither set; every filter yields
\* ascending point offsets, each at most once, and exactly the flagged points.
C15_FilterSemantics ==
    /\ [][(bool_last'.op = "filter" /\ bool_last.op = "add_point") =>
            (bool_last.id \in Range(bool_last'.ret)
                <=> PayloadHolds(bool_last.payload, bool_last'.value))
         ]_vars
    /\ [](bool_last.op = "filter" =>
            /\ StrictlyAscending(bool_last.ret)
            /\ Range(bool_last.ret) = (IF bool_last.value THEN trues ELSE falses))

\* Both points hold [true, false] or [false, true]-like payloads: a filter
\* yielded both, in order, and each of them is in the other set too.
C15_Witness ==
    /\ bool_last.op = "filter" /\ bool_last.ret = <<0, 1>>
    /\ trues = {0, 1} /\ falses = {0, 1}

\* C16: when the flusher ran right before the index was dropped, the index
\* opened again at the same path returns from filter(true), filter(false) and
\* count_indexed_points what they returned before the drop; load() then returns
\* true and changes none of them.
C16_Persistence ==
    [][/\ (bool_last'.op = "open_at" /\ bool_last.op = "drop" /\ bool_last.synced)
            => BoolObserved' = bool_last.ret
       /\ bool_last'.op = "load" => (bool_last'.ret = TRUE /\ BoolObserved' = BoolObserved)
      ]_vars

\* An index with a point in both sets and a point in one was flushed, dropped
\* and opened again.
C16_Witness ==
    /\ bool_last.op = "open_at" /\ bool_last.synced
    /\ trues = {0, 1} /\ falses = {1} /\ indexed_count = 2

\* C17: count_indexed_points is the number of points in filter(true) or
\* filter(false), a point in both counted once; an add_point changes it by +1
\* for a payload holding a bool and by -1 for the point's being indexed before,
\* so null, numbers and strings are not counted; estimate_cardinality(v).exp and
\* the cardinality of the payload block of v are the number of points in filter(v).
C17_Counts ==
    /\ [](/\ bool_last.op = "count_indexed_points" =>
                bool_last.ret = Cardinality(Matching(TRUE) \cup Matching(FALSE))
          /\ bool_last.op = "estimate_cardinality" =>
                bool_last.ret = Len(BoolIndex_filter(bool_last.value))
          /\ bool_last.op = "payload_blocks" =>
                \A i \in DOMAIN bool_last.ret :
                    bool_last.ret[i].cardinality =
                        Len(BoolIndex_filter(bool_last.ret[i].value)))
    /\ [][bool_last'.op = "add_point" =>
            BoolIndex_count_indexed_points' =
                BoolIndex_count_indexed_points
                - (IF bool_last'.id \in Matching(TRUE) \cup Matching(FALSE) THEN 1 ELSE 0)
                + (IF \E v \in BOOLEAN : PayloadHolds(bool_last'.payload, v) THEN 1 ELSE 0)
         ]_vars

\* One point is in both sets; the other, stored as true before, holds no bool any
\* more: one point is counted.
C17_Witness ==
    /\ bool_last.op = "count_indexed_points" /\ bool_last.ret = 1
    /\ trues = {0} /\ falses = {0}
    /\ 1 \in bool_files.trues

\* ------------------------------------------- the two variants side by side
\* enum BoolIndex { Simple(SimpleBoolIndex), Mmap(MmapBoolIndex) }: a value is
\* its variant and the state of the representation.
Simple == "Simple"
Mmap == "Mmap"
BoolIndex(variant, state) == [variant |-> variant, state |-> state]

\* The map-backed form: point offset -> which booleans the point holds.  A
\* point without booleans has no entry; nothing is cached.
BooleanItem(has_true, has_false) == [has_true |-> has_true, has_false |-> has_false]
SimpleBoolIndex_new == [id \in {} |-> BooleanItem(FALSE, FALSE)]
SimpleBoolIndex_remove_point(map, id) == [k \in DOMAIN map \ {id} |-> map[k]]
SimpleBoolIndex_add_many(map, id, values) ==
    IF values = <<>> THEN map
    ELSE [k \in DOMAIN map \cup {id} |->
            IF k = id THEN BooleanItem(\E i \in DOMAIN values : values[i],
                                       \E i \in DOMAIN values : ~values[i])
            ELSE map[k]]
SimpleBoolIndex_holds(map, id, value) ==
    id \in DOMAIN map /\ (IF value THEN map[id].has_true ELSE map[id].has_false)
SimpleBoolIndex_filter(map, value) ==
    SortedSeq({id \in DOMAIN map : SimpleBoolIndex_holds(map, id, value)})
SimpleBoolIndex_count_indexed_points(map) == Cardinality(DOMAIN map)
SimpleBoolIndex_estimate_cardinality(map, value) ==
    Cardinality({id \in DOMAIN map : SimpleBoolIndex_holds(map, id, value)})
SimpleBoolIndex_values_count(map, id) ==
    (IF SimpleBoolIndex_holds(map, id, TRUE) THEN 1 ELSE 0)
    + (IF SimpleBoolIndex_holds(map, id, FALSE) THEN 1 ELSE 0)

\* The memory-mapped form: the flags per value and the cached counts.
MmapBoolIndex_filter(mem, value) ==
    SelectSeq([i \in 1..MaxBoolPoints |-> i - 1],
              LAMBDA id : id \in (IF value THEN mem.trues ELSE mem.falses))
MmapBoolIndex_count_indexed_points(mem) == mem.indexed_count
MmapBoolIndex_estimate_cardinality(mem, value) ==
    IF value THEN mem.trues_count ELSE mem.falses_count
MmapBoolIndex_values_count(mem, id) ==
    (IF id \in mem.trues THEN 1 ELSE 0) + (IF id \in mem.falses THEN 1 ELSE 0)

\* remove_point that reaches the Mmap variant only.
Dispatch_remove_point_mmap_only(index, id) ==
    IF index.variant = Simple THEN index
    ELSE BoolIndex(Mmap, BoolIndex_remove_point(index.state, id))

\* match self { Simple(index) => index.m(..), Mmap(index) => index.m(..) }
Dispatch_remove_point(index, id) ==
    IF index.variant = Simple
    THEN BoolIndex(Simple, SimpleBoolIndex_remove_point(index.state, id))
    ELSE BoolIndex(Mmap, BoolIndex_remove_point(index.state, id))
Dispatch_add_many(index, id, values) ==
    IF index.variant = Simple
    THEN BoolIndex(Simple, SimpleBoolIndex_add_many(index.state, id, values))
    ELSE BoolIndex(Mmap, BoolIndex_add_many(index.state, id, values))
Dispatch_filter(index, value) ==
    IF index.variant = Simple THEN SimpleBoolIndex_filter(index.state, value)
    ELSE MmapBoolIndex_filter(index.state, value)
Dispatch_count_indexed_points(index) ==
    IF index.variant = Simple THEN SimpleBoolIndex_count_indexed_points(index.state)
    ELSE MmapBoolIndex_count_indexed_points(index.state)
Dispatch_estimate_cardinality(index, value) ==
    IF index.variant = Simple THEN SimpleBoolIndex_estimate_cardinality(index.state, value)
    ELSE MmapBoolIndex_estimate_cardinality(index.state, value)
Dispatch_values_count(index, id) ==
    IF index.variant = Simple THEN SimpleBoolIndex_values_count(index.state, id)
    ELSE MmapBoolIndex_values_count(index.state, id)

\* ValueIndexer::add_point on the enum: remove_point, then add_many of the
\* flattened values.
Dispatch_add_point(index, id, payload) ==
    Dispatch_add_many(Dispatch_remove_point(index, id), id, flatten_values(payload))

VariantFrame == UNCHANGED <<mii_vars, hw_counter, bool_vars, scorer_vars, writer_vars>>

\* I::open_at(path) for I = SimpleBoolIndex and I = MmapBoolIndex, each at a
\* path of its own with nothing stored.
VariantsOpenAt ==
    /\ variants = NoVariants
    /\ variants' = [v \in {Simple, Mmap} |->
                        IF v = Simple THEN BoolIndex(Simple, SimpleBoolIndex_new)
                        ELSE BoolIndex(Mmap, FromFiles(NoFlags))]
    /\ variants_last' = VariantCall("open_at", 0, <<>>, FALSE, <<>>)
    /\ VariantFrame

\* The same add_point on both.
VariantsAddPoint(id, payload) ==
    /\ variants # NoVariants
    /\ variants' = [v \in DOMAIN variants |-> Dispatch_add_point(variants[v], id, payload)]
    /\ variants_last' = VariantCall("add_point", id, payload, FALSE, <<>>)
    /\ VariantFrame

\* The same remove_point on both.
VariantsRemovePoint(id) ==
    /\ variants # NoVariants
    /\ variants' = [v \in DOMAIN variants |-> Dispatch_remove_point(variants[v], id)]
    /\ variants_last' = VariantCall("remove_point", id, <<>>, FALSE, <<>>)
    /\ VariantFrame

\* Reads of both variants, explored from the states the writes produce.
VariantReads == {"filter", "count_indexed_points", "values_count", "estimate_cardinality"}
VariantsObservable == variants # NoVariants /\ variants_last.op \notin VariantReads

VariantsFilter(value) ==
    /\ VariantsObservable
    /\ variants_last' = VariantCall("filter", 0, <<>>, value,
            [v \in DOMAIN variants |-> Dispatch_filter(variants[v], value)])
    /\ UNCHANGED variants
    /\ VariantFrame

VariantsCountIndexedPoints ==
    /\ VariantsObservable
    /\ variants_last' = VariantCall("count_indexed_points", 0, <<>>, FALSE,
            [v \in DOMAIN variants |-> Dispatch_count_indexed_points(variants[v])])
    /\ UNCHANGED variants
    /\ VariantFrame

VariantsValuesCount(id) ==
    /\ VariantsObservable
    /\ variants_last' = VariantCall("values_count", id, <<>>, FALSE,
            [v \in DOMAIN variants |-> Dispatch_values_count(variants[v], id)])
    /\ UNCHANGED variants
    /\ VariantFrame

VariantsEstimateCardinality(value) ==
    /\ VariantsObservable
    /\ variants_last' = VariantCall("estimate_cardinality", 0, <<>>, value,
            [v \in DOMAIN variants |-> Dispatch_estimate_cardinality(variants[v], value)])
    /\ UNCHANGED variants
    /\ VariantFrame

NextVariants ==
    \/ VariantsOpenAt
    \/ \E id \in BoolPointIds, payload \in Payloads : VariantsAddPoint(id, payload)
    \/ \E id \in BoolPointIds : VariantsRemovePoint(id)
    \/ \E value \in BOOLEAN : VariantsFilter(value)
    \/ VariantsCountIndexedPoints
    \/ \E id \in BoolPointIds : VariantsValuesCount(id)
    \/ \E value \in BOOLEAN : VariantsEstimateCardinality(value)

\* Both start as the boolean index does: nothing opened, nothing stored.
SpecVariants == InitBool /\ [][NextVariants]_vars

\* What the read methods of an index return.
VariantObserved(index) ==
    [filter |-> [value \in BOOLEAN |-> Dispatch_filter(index, value)],
     count_indexed_points |-> Dispatch_count_indexed_points(index),
     values_count |-> [id \in BoolPointIds |-> Dispatch_values_count(index, id)],
     estimate_cardinality |->
        [value \in BOOLEAN |-> Dispatch_estimate_cardinality(index, value)]]

\* C24: after every add_point and remove_point applied to a Simple and an Mmap
\* BoolIndex alike, filter(true), filter(false), count_indexed_points,
\* values_count of every point and estimate_cardinality of both values return
\* the same on both.
C24_VariantsEquivalent ==
    /\ variants # NoVariants =>
            VariantObserved(variants[Simple]) = VariantObserved(variants[Mmap])
    /\ variants_last.op \in VariantReads =>
            variants_last.ret[Simple] = variants_last.ret[Mmap]

\* One point holds both booleans and the other holds none any more: both
\* variants have answered values_count with 2 for the first, and both count
\* one indexed point.
C24_Witness ==
    /\ variants_last.op = "values_count"
    /\ variants_last.ret = [v \in {Simple, Mmap} |-> 2]
    /\ \A v \in {Simple, Mmap} :
          /\ Dispatch_count_indexed_points(variants[v]) = 1
          /\ Dispatch_values_count(variants[v], 1 - variants_last.id) = 0
    /\ variants[Mmap].state.trues_count = 1
    /\ DOMAIN variants[Simple].state = {variants_last.id}

\* ---------------------------------------------------- quantized raw scorer
\* Point ids the candidates are drawn from; the largest is beyond every bitmap.
ScorerPointIds == 0..MaxDeletedLen
\* Deletion bitmaps: sequences of bits, bit i at position i + 1.
Bitmaps == SeqsUpTo(BOOLEAN, MaxDeletedLen)
CandidateLists == SeqsUpTo(ScorerPointIds, MaxCandidates)
\* quantized_data.score_point(&query, point_id): some score for each point.
score_point(point_id) == 100 - point_id
\* What the caller's buffer holds before the call.
StaleEntry == [idx |-> MaxDeletedLen + 1, score |-> 0]
Buffers == {[i \in 1..n |-> StaleEntry] : n \in 0..MaxScores}

\* self.deleted[point_id as usize]: in bounds or not.
deleted_in_bounds(point_id) == point_id + 1 \in DOMAIN deleted
deleted_bit(point_id) == deleted[point_id + 1]

\* A call of score_points(points, scores) on a scorer borrowing a bitmap.
ScorePointsCall(bitmap, candidates, buffer) ==
    /\ scorer_pc = "idle"
    /\ deleted' = bitmap
    /\ points' = candidates
    /\ scores' = buffer
    /\ next_point' = 1
    /\ size' = 0
    /\ scorer_pc' = "scoring"
    /\ UNCHANGED <<mii_vars, hw_counter, bool_vars, writer_vars, variant_vars>>

\* One iteration of `for point_id in points.iter().copied()`.
ScorePointsStep ==
    /\ scorer_pc = "scoring"
    /\ next_point \in DOMAIN points
    /\ LET point_id == points[next_point]
       IN IF ~deleted_in_bounds(point_id)
          THEN \* index out of bounds: self.deleted[point_id]
               /\ scorer_pc' = "panicked"
               /\ UNCHANGED <<scores, next_point, size>>
          ELSE IF deleted_bit(point_id)
          THEN \* continue
               /\ next_point' = next_point + 1
               /\ UNCHANGED <<scorer_pc, scores, size>>
          ELSE IF size + 1 \notin DOMAIN scores
          THEN \* index out of bounds: scores[size]
               /\ scorer_pc' = "panicked"
               /\ UNCHANGED <<scores, next_point, size>>
          ELSE /\ scores' = [scores EXCEPT ![size + 1] =
                                [idx |-> point_id, score |-> score_point(point_id)]]
               /\ size' = size + 1
               /\ next_point' = next_point + 1
               /\ scorer_pc' = IF size + 1 = Len(scores) THEN "returned" ELSE "scoring"
    /\ UNCHANGED <<deleted, points>>
    /\ UNCHANGED <<mii_vars, hw_counter, bool_vars, writer_vars, variant_vars>>

\* The loop ran out of candidates: return size.
ScorePointsReturn ==
    /\ scorer_pc = "scoring"
    /\ next_point \notin DOMAIN points
    /\ scorer_pc' = "returned"
    /\ UNCHANGED <<deleted, points, scores, next_point, size>>
    /\ UNCHANGED <<mii_vars, hw_counter, bool_vars, writer_vars, variant_vars>>

InitScorer == BoolIdle /\ ScorerIdle /\ IndexIdle

NextScorer ==
    \/ \E bitmap \in Bitmaps, candidates \in CandidateLists, buffer \in Buffers :
          ScorePointsCall(bitmap, candidates, buffer)
    \/ ScorePointsStep
    \/ ScorePointsReturn

SpecScorer == InitScorer /\ [][NextScorer]_vars

\* The candidates that are not deleted, in input order (a candidate beyond the
\* bitmap has no deleted bit).
Live(candidates) ==
    SelectSeq(candidates, LAMBDA p : ~(deleted_in_bounds(p) /\ deleted_bit(p)))
ScorerDone == scorer_pc \in {"returned", "panicked"}

\* C18: every score_points call returns k = min(len(scores), number of
\* non-deleted candidates) with the first k non-deleted candidates, in input
\* order, in scores[0..k], the rest of the buffer untouched, and no candidate
\* examined after the buffer is full.
C18_ScorePoints ==
    ScorerDone =>
        /\ scorer_pc = "returned"
        /\ size = Min({Len(scores), Len(Live(points))})
        /\ \A i \in 1..size : scores[i].idx = Live(points)[i]
        /\ \A i \in DOMAIN scores : i > size => scores[i] = StaleEntry
        /\ size = Len(scores) =>
              Len(Live(SubSeq(points, 1, next_point - 1))) = size
                  /\ (size > 0 => points[next_point - 1] = scores[size].idx)

\* check_point: the id is inside the bitmap and its bit is not set.
check_point(point) == point < Len(deleted) /\ ~deleted[point + 1]

\* C25: no score_points call indexes outside the deletion bitmap or the output
\* buffer, whatever the bitmap, the candidates and the buffer are; and the
\* entries it has written are, in order, the candidates examined so far that
\* check_point accepts.
C25_BoundsSafety ==
    /\ scorer_pc # "panicked"
    /\ scorer_pc \in {"scoring", "returned"} =>
          [i \in 1..size |-> scores[i].idx] =
              SelectSeq(SubSeq(points, 1, next_point - 1), check_point)

\* ------------------------------------------- claims on the liveness overlay
\* C19: in every state of an opened index and for every point id, is_active(id)
\* holds exactly when id < len(point_to_tokens_count) and the deleted bit of id
\* is not set; an id in the tail of the bitmap, beyond the count slice, is not
\* active.
C19_IsActive ==
    Ready =>
        \A id \in PointIds :
            is_active(id) <=> (id \in DOMAIN point_to_tokens_count /\ SlotClear(id))

\* C20: remove_document(idx) never fails and returns true exactly when it
\* changed state.  When the slot of idx is absent or set it returns false and
\* leaves the deleted bits, the counts and active_points_count as they are;
\* otherwise it returns true and sets the deleted bit of idx, and when idx is
\* in bounds of point_to_tokens_count it zeroes that count and
\* active_points_count goes down by exactly 1, and when idx is beyond the count
\* slice the counts and active_points_count stay.
C20_RemoveDocumentEffect ==
    [][last'.op = "remove_document" =>
          /\ ~last'.panic
          /\ last'.ret = TRUE <=>
                <<bitslice, pending_updates, point_to_tokens_count, active_points_count>>'
                    # <<bitslice, pending_updates, point_to_tokens_count, active_points_count>>
          /\ IF ~SlotClear(last'.id)
             THEN /\ last'.ret = FALSE
                  /\ UNCHANGED <<bitslice, pending_updates, point_to_tokens_count,
                                 active_points_count>>
             ELSE /\ last'.ret = TRUE
                  /\ \A id \in PointIds :
                        (deleted_points_get(id))' =
                            IF id = last'.id THEN Some(TRUE) ELSE deleted_points_get(id)
                  /\ IF last'.id \in DOMAIN point_to_tokens_count
                     THEN /\ point_to_tokens_count' =
                                [point_to_tokens_count EXCEPT ![last'.id] = 0]
                          /\ active_points_count' = active_points_count - 1
                     ELSE UNCHANGED <<point_to_tokens_count, active_points_count>>
      ]_vars

\* C22: when an index is flushed and closed after any remove_document calls,
\* the subtraction len(point_to_tokens_count) - count_ones(deleted) that open
\* makes on the files does not underflow and gives the active_points_count the
\* instance had when it was closed; open returns that count and does not fail.
C22_ReopenLiveCount ==
    /\ [][(last.op = "flush" /\ last'.op = "close") =>
            (OpenPointsCount >= 0 /\ OpenPointsCount = active_points_count)]_vars
    /\ [](last.op = "open" => (~last.panic /\ active_points_count = OpenPointsCount))

\* C23: for a query of one or more tokens that all have a posting,
\* check_match(query, id) returns true exactly when filter(query) yields id, in
\* every state of an opened index: a check_match call returns what filter
\* would yield for its point, and a filter call yields the points check_match
\* accepts.
C23_CheckMatchAgreesWithFilter ==
    /\ (last.op = "check_match" /\ last.query # <<>> /\ AllHavePosting(last.query)) =>
            (~last.panic /\ (last.ret <=> last.id \in Range(filter(last.query))))
    /\ (last.op = "filter" /\ last.query # <<>> /\ AllHavePosting(last.query)) =>
            \A id \in PointIds :
                id \in Range(last.ret) <=> check_match(last.query, id).value

\* ------------------------------------------------- claims on shared access
\* The slot of id was present and clear at the handover.
LiveAtStart(id) == id \in DOMAIN session_start.deleted /\ ~session_start.deleted[id]
\* The ids writers' calls have run for since the handover.
Called == {id \in PointIds : calls_done[id] > 0}
\* What an in-flight filter over the posting has yielded after `n` ids.
YieldedAfter(posting, n) == SelectSeq(SubSeq(posting, 1, n), is_active)

\* C21: whatever calls the writers have issued and in whatever order they ran,
\* the deleted bits are the bits at the handover or-ed with the ids called;
\* of the calls for one id exactly one returned true when the id was live at
\* the handover, and none otherwise; active_points_count went down by one for
\* each id in bounds of the count slice that was deleted; no call failed; and
\* a reader in flight has seen, for each id it examined, the state its slot has.
C21_ConcurrentDeletions ==
    (shared /\ Opened) =>
        /\ pc = "ready"
        /\ \A id \in DOMAIN bitslice :
              Unwrap(deleted_points_get(id)) = (session_start.deleted[id] \/ id \in Called)
        /\ \A id \in PointIds :
              calls_true[id] = IF LiveAtStart(id) /\ id \in Called THEN 1 ELSE 0
        /\ active_points_count =
              session_start.count
              - Cardinality({id \in DOMAIN point_to_tokens_count :
                                LiveAtStart(id) /\ id \in Called})
        /\ reader_pos # None =>
              reader_seen = YieldedAfter(Unwrap(postings_get(ReaderQuery[1])),
                                         Unwrap(reader_pos) - 1)

====
